---- MODULE Spec2Model ----
(***************************************************************************)
(* State-machine model of NanoVNASaver.py: the sweep buffer shared between *)
(* the sweep worker thread and the foreground (GUI event) thread, the      *)
(* update/marker/reference pipeline that runs on the foreground thread,    *)
(* and the I2C expander configuration routine.                             *)
(*                                                                         *)
(* A foreground handler is split into one action per access to state that  *)
(* the worker thread also touches (dataLock, data.s11, data.s21,           *)
(* sweepSource); statements that touch only foreground-owned state are     *)
(* grouped into the action of the preceding shared access.                 *)
(***************************************************************************)
EXTENDS Integers, Sequences, FiniteSets, TLC

\* ------------------------------------------------------------------ bounds
\* Number of saveData calls the worker makes in a behaviour.
MaxWrites == 2
\* Longest sweep (number of points) the device delivers.
MaxPoints == 2
\* Number of markers configured (at least one marker always exists).
MaxMarkers == 2
\* Longest sweep, and highest level of a point, of the sweeps the statistics
\* labels are checked on.
MaxStatPoints == 3
MaxLevel == 3

\* ------------------------------------------------------------ data values
\* RFTools.Datapoint as the pipeline uses it: freq, vswr, gain.
Datapoint(f, v) == [freq |-> f, vswr |-> v, gain |-> v]

\* A frequency-ascending sweep of n points: the i-th point has frequency i,
\* the levels alternate 2, 1, 2, ...
SweepOf(n) == [i \in 1..n |-> Datapoint(i, 1 + (i % 2))]

\* The sweeps the device can deliver for one parameter (possibly empty).
SweepInputs == {SweepOf(n) : n \in 0..MaxPoints}

\* The (s11, s21) pairs of one sweep: s21 is as long as s11, or empty when
\* the hardware reports S11 only.
PairInputs ==
    {[s11 |-> a, s21 |-> a] : a \in SweepInputs}
        \cup {[s11 |-> a, s21 |-> <<>>] : a \in SweepInputs}

\* Every sweep of up to MaxStatPoints points with levels 1..MaxLevel.
AnySweeps ==
    UNION {{[i \in 1..n |-> Datapoint(i, level[i])] :
               level \in [1..n -> 1..MaxLevel]} : n \in 0..MaxStatPoints}

\* The (s11, s21) pairs over AnySweeps: s21 as long as s11 or empty, and
\* S21-only data.
AnyPairInputs ==
    {w \in [s11 : AnySweeps, s21 : AnySweeps] :
        \/ Len(w.s21) \in {0, Len(w.s11)}
        \/ w.s11 = <<>>}

\* The values self.s21att can be configured to (0.0 means no correction).
AttValues == {0, 1}

\* The source label of data loaded from a file (the worker's labels are
\* 1..MaxWrites).
FileSource == MaxWrites + 1

\* Touchstone(): a fresh, empty data set.
Touchstone == [s11 |-> <<>>, s21 |-> <<>>]

\* The empty source label "".
NoSource == 0

\* RFTools.corr_att_data: every point's gain raised by the attenuation.
corr_att_data(s, att) ==
    [i \in 1..Len(s) |-> [s[i] EXCEPT !.gain = s[i].gain + att]]

\* Optional label value: <<>> is a blank label, <<x>> shows x.
Blank == <<>>

VARIABLES
    dataLock,        \* "free", "worker" or "fg": holder of self.dataLock
    data,            \* self.data: [s11, s21]
    sweepSource,     \* self.sweepSource
    s21att,          \* self.s21att
    connected,       \* self.vna.connected()
    wpc,             \* worker thread position
    warg,            \* arguments of the saveData call in progress
    nwrites,         \* number of saveData calls started so far
    events,          \* queued worker notifications awaiting the foreground
    fpc,             \* foreground thread position
    fop,             \* foreground handler in progress
    fl,              \* foreground handler locals
    fq,              \* markers whose markerUpdated the handler still runs
    raised,          \* exception raised by the last foreground handler
    ref_data,        \* self.ref_data
    referenceSource, \* self.referenceSource
    title,           \* window title as last set by updateTitle
    btnResetDisabled,\* self.btnResetReference disabled?
    charts,          \* what the subscribing charts were last given
    markers,         \* self.markers
    marker_ref,      \* self.marker_ref
    deltaHidden,     \* self.delta_marker_layout.isHidden()
    delta_marker,    \* self.delta_marker
    labels,          \* the S11/S21 statistics labels
    sweep_control,   \* progress bar and start/stop buttons
    error,           \* what the last showSweepError did
    hist,            \* history: the pair stored by each completed saveData
    trace,           \* history: what the last finished handler observed
    pa               \* the last configure_pa call and what it did

vars == <<dataLock, data, sweepSource, s21att, connected, wpc, warg, nwrites,
          events, fpc, fop, fl, fq, raised, ref_data, referenceSource,
          title,
          btnResetDisabled, charts, markers, marker_ref, deltaHidden,
          delta_marker, labels, sweep_control, error, hist, trace, pa>>

\* Settings no handler of this module changes (the device going away is
\* the environment's doing), and the record of the
\* amplifier configuration, which the sweep pipeline never touches.
configVars == <<s21att, connected, pa>>
sharedVars == <<dataLock, data, sweepSource>>
workerVars == <<wpc, warg, nwrites, events, hist>>
fgVars == <<fpc, fop, fl, fq, raised, ref_data, referenceSource, title,
            btnResetDisabled, charts, markers, marker_ref, deltaHidden,
            delta_marker, labels, sweep_control, error, trace>>

\* ------------------------------------------------------------ initial state
\* Foreground locals of a handler that has not read anything yet.
NoLocals == [s11 |-> <<>>, s21 |-> <<>>, source |-> NoSource, m |-> 0,
             trigger |-> 0, tsrc |-> NoSource]

\* The title parts: sweep/ref are <<>> (part absent) or <<source, points>>.
NoTitle == [sweep |-> <<>>, ref |-> <<>>]

\* Marker(...): no location (0 stands for Python's -1), blank labels.
NewMarker(f) == [freq |-> f, location |-> 0, s11 |-> Blank, s21 |-> Blank]

\* No sweep error handled yet: nothing shown, no flush, no reconnect.
NoError == [shown |-> FALSE, flush |-> "none", reconnect |-> "none"]

\* configure_pa has not been called.
NoCall == [called |-> FALSE, cfg |-> <<>>, clear |-> FALSE, bus |-> <<>>,
           outcome |-> "none", parsed |-> "none", diagnostic |-> FALSE,
           result |-> <<>>, writes |-> <<>>]

\* trace: the handler that returned last ("other" for those no property
\* singles out), and for resetReference whether the handler that returned
\* before it was resetReference too.
NoTrace == [op |-> "none", again |-> FALSE]

Init ==
    /\ dataLock = "free"
    /\ data = Touchstone
    /\ sweepSource = NoSource
    /\ s21att \in AttValues
    /\ connected \in BOOLEAN
    /\ wpc = "stopped"
    /\ warg = Touchstone
    /\ nwrites = 0
    /\ events = <<>>
    /\ fpc = "idle"
    /\ fop = "none"
    /\ fl = NoLocals
    /\ fq = <<>>
    /\ raised = "none"
    /\ ref_data = Touchstone
    /\ referenceSource = NoSource
    /\ title = NoTitle
    /\ btnResetDisabled = TRUE
    /\ charts = [s11 |-> <<>>, s21 |-> <<>>, refOn |-> FALSE,
                 ref11 |-> <<>>, ref21 |-> <<>>]
    /\ \E n \in 1..MaxMarkers : markers = [i \in 1..n |-> NewMarker(i)]
    /\ marker_ref = FALSE
    /\ deltaHidden = TRUE
    /\ delta_marker = [set |-> FALSE, a |-> 0, b |-> 0, labels |-> Blank]
    /\ labels = [min_swr |-> Blank, min_rl |-> Blank,
                 min_gain |-> Blank, max_gain |-> Blank]
    /\ sweep_control = [progress |-> 0, start_disabled |-> FALSE,
                        stop_disabled |-> TRUE]
    /\ error = NoError
    /\ hist = <<>>
    /\ trace = NoTrace
    /\ pa = NoCall

\* ------------------------------------------------------------ the data lock
\* "with self.dataLock:" entered by thread who: blocks while the lock is held.
Acquire(who) ==
    /\ dataLock = "free"
    /\ dataLock' = who

\* "with self.dataLock:" left.
Release == dataLock' = "free"

\* ------------------------------------------------------- the worker thread
\* SweepWorker.run: one sweep is read from the device and handed to saveData.
Worker_Sweep ==
    /\ wpc = "run"
    /\ nwrites < MaxWrites
    /\ \E w \in PairInputs : warg' = w
    /\ nwrites' = nwrites + 1
    /\ wpc' = "sd_lock"
    /\ UNCHANGED <<events, hist, sharedVars, fgVars, configVars>>

\* Fault: saveData goes on to its writes without taking the lock.
SaveData_Unlocked ==
    /\ wpc = "sd_lock"
    /\ wpc' = "sd_s11"
    /\ UNCHANGED <<sharedVars, warg, nwrites, events, hist, fgVars, configVars>>

\* saveData, "with self.dataLock:" entered.
SaveData_Acquire ==
    /\ wpc = "sd_lock"
    /\ Acquire("worker")
    /\ wpc' = "sd_s11"
    /\ UNCHANGED <<data, sweepSource, warg, nwrites, events, hist, fgVars,
                   configVars>>

\* self.data.s11 = data
SaveData_S11 ==
    /\ wpc = "sd_s11"
    /\ data' = [data EXCEPT !.s11 = warg.s11]
    /\ wpc' = "sd_s21"
    /\ UNCHANGED <<dataLock, sweepSource, warg, nwrites, events, hist, fgVars,
                   configVars>>

\* self.data.s21 = data21
SaveData_S21 ==
    /\ wpc = "sd_s21"
    /\ data' = [data EXCEPT !.s21 = warg.s21]
    /\ wpc' = "sd_corr"
    /\ UNCHANGED <<dataLock, sweepSource, warg, nwrites, events, hist, fgVars,
                   configVars>>

\* if self.s21att > 0: self.data.s21 = corr_att_data(self.data.s21, s21att)
SaveData_Corr ==
    /\ wpc = "sd_corr"
    /\ data' = IF s21att > 0
               THEN [data EXCEPT !.s21 = corr_att_data(data.s21, s21att)]
               ELSE data
    /\ wpc' = "sd_unlock"
    /\ UNCHANGED <<dataLock, sweepSource, warg, nwrites, events, hist, fgVars,
                   configVars>>

\* The pair a saveData call with arguments w stores.
Stored(w) ==
    [s11 |-> w.s11,
     s21 |-> IF s21att > 0 THEN corr_att_data(w.s21, s21att) ELSE w.s21]

\* The history entry of a completed saveData call: what it stores, the s21
\* it was handed, and the source label it sets.
Written(w, source) ==
    [s11 |-> Stored(w).s11, s21 |-> Stored(w).s21, raw21 |-> w.s21,
     source |-> source]

\* Leaving "with self.dataLock:"; the call's stored pair enters the history.
SaveData_Release ==
    /\ wpc = "sd_unlock"
    /\ Release
    /\ hist' = Append(hist, Written(warg, nwrites))
    /\ wpc' = "sd_source"
    /\ UNCHANGED <<data, sweepSource, warg, nwrites, events, fgVars, configVars>>

\* source is None: self.sweepSource = f"{name}_{time}".  The label of the
\* n-th call is n: the timestamp is taken to tell the calls apart.
SaveData_Source ==
    /\ wpc = "sd_source"
    /\ sweepSource' = nwrites
    /\ wpc' = "emit"
    /\ UNCHANGED <<dataLock, data, warg, nwrites, events, hist, fgVars, configVars>>

\* SweepWorker: self.signals.updated.emit() after saveData; the connection
\* to dataUpdated is queued, the notification carries the call's number.
Worker_EmitUpdated ==
    /\ wpc = "emit"
    /\ events' = Append(events, [sig |-> "updated", n |-> nwrites])
    /\ wpc' = "run"
    /\ UNCHANGED <<warg, nwrites, hist, sharedVars, fgVars, configVars>>

\* SweepWorker: the sweep is complete, self.signals.finished.emit().
Worker_EmitFinished ==
    /\ wpc = "run"
    /\ events' = Append(events, [sig |-> "finished", n |-> nwrites])
    /\ wpc' = "stopped"
    /\ UNCHANGED <<warg, nwrites, hist, sharedVars, fgVars, configVars>>

\* SweepWorker: the sweep failed, self.signals.sweep_error.emit().
Worker_EmitError ==
    /\ wpc = "run"
    /\ events' = Append(events, [sig |-> "sweep_error", n |-> nwrites])
    /\ wpc' = "stopped"
    /\ UNCHANGED <<warg, nwrites, hist, sharedVars, fgVars, configVars>>

Worker ==
    \/ Worker_Sweep
    \/ SaveData_Acquire
    \/ SaveData_S11
    \/ SaveData_S21
    \/ SaveData_Corr
    \/ SaveData_Release
    \/ SaveData_Source
    \/ Worker_EmitUpdated
    \/ Worker_EmitFinished
    \/ Worker_EmitError

\* ------------------------------------------------------- pure helpers
\* Fault: among points of equal vswr the last one wins.
RECURSIVE MinVswrFrom_Last(_, _, _)
MinVswrFrom_Last(s, i, best) ==
    IF i > Len(s) THEN best
    ELSE MinVswrFrom_Last(s, i + 1,
                          IF s[i].vswr <= s[best].vswr THEN i ELSE best)

\* Index of the first point of s with the least vswr, scanning from i with
\* best the index found so far: Python's min(s11, key=lambda d: d.vswr).
RECURSIVE MinVswrFrom(_, _, _)
MinVswrFrom(s, i, best) ==
    IF i > Len(s) THEN best
    ELSE MinVswrFrom(s, i + 1, IF s[i].vswr < s[best].vswr THEN i ELSE best)

\* min(s21, key=lambda d: d.gain)
RECURSIVE MinGainFrom(_, _, _)
MinGainFrom(s, i, best) ==
    IF i > Len(s) THEN best
    ELSE MinGainFrom(s, i + 1, IF s[i].gain < s[best].gain THEN i ELSE best)

\* max(s21, key=lambda d: d.gain)
RECURSIVE MaxGainFrom(_, _, _)
MaxGainFrom(s, i, best) ==
    IF i > Len(s) THEN best
    ELSE MaxGainFrom(s, i + 1, IF s[i].gain > s[best].gain THEN i ELSE best)

\* Marker.resetLabels
resetLabels(m) == [m EXCEPT !.s11 = Blank, !.s21 = Blank]

\* Marker.updateLabels(s11, s21): labels from s11[location] and, when s21
\* reaches that far, s21[location]; nothing without a located s11 point.
updateLabels(m, s11, s21) ==
    IF m.location \in 1..Len(s11)
    THEN [m EXCEPT !.s11 = <<s11[m.location]>>,
                   !.s21 = IF m.location <= Len(s21)
                           THEN <<s21[m.location]>> ELSE Blank]
    ELSE m

Abs(x) == IF x < 0 THEN -x ELSE x

\* Marker.findLocation(s11): index of the point nearest in frequency to the
\* marker's, the lower index on a tie; no location in an empty sweep.
findLocation(m, s11) ==
    IF s11 = <<>> THEN [m EXCEPT !.location = 0]
    ELSE [m EXCEPT !.location =
            CHOOSE i \in 1..Len(s11) :
                /\ \A j \in 1..Len(s11) :
                       Abs(s11[i].freq - m.freq) <= Abs(s11[j].freq - m.freq)
                /\ \A j \in 1..(i - 1) :
                       Abs(s11[j].freq - m.freq) > Abs(s11[i].freq - m.freq)]

\* The title updateTitle builds once it has read the sweep part (src is the
\* sweep source it read, n the length of data.s11 it read).
TitleOf(src, n) ==
    [sweep |-> IF src # NoSource THEN <<src, n>> ELSE <<>>,
     ref   |-> IF referenceSource # NoSource
               THEN <<referenceSource, Len(ref_data.s11)>> ELSE <<>>]

\* ---------------------------------------------------- the foreground thread
\* The event loop is idle: a user action can start its handler.
UserCall == fpc = "idle"

\* The trace once handler op has returned.
Traced(op) ==
    [op |-> IF op \in {"dataUpdated", "resetReference", "markerUpdated",
                       "sweep_start"}
            THEN op ELSE "other",
     again |-> op = "resetReference" /\ trace.op = op]

\* A handler has returned to the event loop.
Return(op) ==
    /\ fpc' = "idle"
    /\ fop' = "none"
    /\ fl' = NoLocals
    /\ trace' = Traced(op)

\* The file loader, on the foreground thread with no sweep running:
\* saveData(s11, s21, source) followed by dataUpdated().  With the worker
\* stopped nothing interleaves with the saveData call.
LoadFile(inputs) ==
    /\ UserCall
    /\ wpc = "stopped"
    /\ events = <<>>
    /\ nwrites < MaxWrites
    /\ dataLock = "free"
    /\ \E w \in inputs :
          /\ data' = Stored(w)
          /\ hist' = Append(hist, Written(w, FileSource))
    /\ sweepSource' = FileSource
    /\ nwrites' = nwrites + 1
    /\ fop' = "dataUpdated"
    /\ fl' = [NoLocals EXCEPT !.trigger = nwrites']
    /\ fpc' = "du_lock"
    /\ raised' = "none"
    /\ UNCHANGED <<dataLock, wpc, warg, events, configVars, fq,
                   ref_data, referenceSource, title, btnResetDisabled, charts,
                   markers, marker_ref, deltaHidden, delta_marker, labels,
                   sweep_control, error, trace>>

\* A file holding one of the sweeps of PairInputs is loaded.
LoadSweepFile == LoadFile(PairInputs)

\* A file holding any of the sweeps of AnyPairInputs is loaded, once.
LoadAnySweep == nwrites = 0 /\ LoadFile(AnyPairInputs)

\* dataUpdated is run for a queued "updated" notification.
DataUpdated_Begin ==
    /\ fpc = "idle"
    /\ events # <<>>
    /\ Head(events).sig = "updated"
    /\ events' = Tail(events)
    /\ fop' = "dataUpdated"
    /\ fl' = [NoLocals EXCEPT !.trigger = Head(events).n]
    /\ fpc' = "du_lock"
    /\ raised' = "none"
    /\ UNCHANGED <<sharedVars, wpc, warg, nwrites, hist, configVars, fq,
                   ref_data, referenceSource, title, btnResetDisabled, charts,
                   markers, marker_ref, deltaHidden, delta_marker, labels,
                   sweep_control, error, trace>>

\* Everything a step of the foreground between acquire and release of the
\* snapshot leaves alone.
SnapshotFrame ==
    UNCHANGED <<data, sweepSource, workerVars, configVars, fop, fq,
                raised, ref_data, referenceSource, title, btnResetDisabled,
                charts, markers, marker_ref, deltaHidden, delta_marker, labels,
                sweep_control, error, trace>>

\* Fault: dataUpdated copies the buffer without taking the lock.
DataUpdated_Unlocked ==
    /\ fpc = "du_lock"
    /\ fpc' = "du_r11"
    /\ UNCHANGED <<dataLock, fl>>
    /\ SnapshotFrame

\* dataUpdated: with self.dataLock:
DataUpdated_Acquire ==
    /\ fpc = "du_lock"
    /\ Acquire("fg")
    /\ fpc' = "du_r11"
    /\ UNCHANGED fl
    /\ SnapshotFrame

\* s11 = self.data.s11[:]
DataUpdated_CopyS11 ==
    /\ fpc = "du_r11"
    /\ fl' = [fl EXCEPT !.s11 = data.s11]
    /\ fpc' = "du_r21"
    /\ UNCHANGED dataLock
    /\ SnapshotFrame

\* s21 = self.data.s21[:]
DataUpdated_CopyS21 ==
    /\ fpc = "du_r21"
    /\ fl' = [fl EXCEPT !.s21 = data.s21]
    /\ fpc' = "du_unlock"
    /\ UNCHANGED dataLock
    /\ SnapshotFrame

\* Leaving the with block.
DataUpdated_Release ==
    /\ fpc = "du_unlock"
    /\ Release
    /\ fpc' = "du_push"
    /\ UNCHANGED fl
    /\ SnapshotFrame

\* SweepWorker.percentage as the foreground reads it.
percentage == (100 * Len(hist)) \div MaxWrites

\* Fault: the S11 labels are left blank for a sweep of a single point.
S11Labels_OffByOne(s11) ==
    IF Len(s11) > 1
    THEN LET min_vswr == s11[MinVswrFrom(s11, 1, 1)]
         IN  [min_swr |-> <<[vswr |-> min_vswr.vswr, freq |-> min_vswr.freq]>>,
              min_rl  |-> <<min_vswr.gain>>]
    ELSE [min_swr |-> Blank, min_rl |-> Blank]

\* The S11 statistics labels for snapshot s11.
S11Labels(s11) ==
    IF s11 # <<>>
    THEN LET min_vswr == s11[MinVswrFrom(s11, 1, 1)]
         IN  [min_swr |-> <<[vswr |-> min_vswr.vswr, freq |-> min_vswr.freq]>>,
              min_rl  |-> <<min_vswr.gain>>]
    ELSE [min_swr |-> Blank, min_rl |-> Blank]

\* The S21 statistics labels for snapshot s21.
S21Labels(s21) ==
    IF s21 # <<>>
    THEN LET min_gain == s21[MinGainFrom(s21, 1, 1)]
             max_gain == s21[MaxGainFrom(s21, 1, 1)]
         IN  [min_gain |-> <<[gain |-> min_gain.gain, freq |-> min_gain.freq]>>,
              max_gain |-> <<[gain |-> max_gain.gain, freq |-> max_gain.freq]>>]
    ELSE [min_gain |-> Blank, max_gain |-> Blank]

\* dataUpdated, from the marker loop to the statistics labels: the markers,
\* the charts, the progress bar and the labels are given the snapshot.
DataUpdated_Push ==
    /\ fpc = "du_push"
    /\ markers' = [i \in 1..Len(markers) |->
                      updateLabels(resetLabels(markers[i]), fl.s11, fl.s21)]
    /\ charts' = [charts EXCEPT !.s11 = fl.s11, !.s21 = fl.s21]
    /\ sweep_control' = [sweep_control EXCEPT !.progress = percentage]
    /\ labels' = [min_swr  |-> S11Labels(fl.s11).min_swr,
                  min_rl   |-> S11Labels(fl.s11).min_rl,
                  min_gain |-> S21Labels(fl.s21).min_gain,
                  max_gain |-> S21Labels(fl.s21).max_gain]
    /\ fpc' = "ut_test"
    /\ UNCHANGED <<sharedVars, workerVars, configVars, fop, fl, fq,
                   raised, ref_data, referenceSource, title, btnResetDisabled,
                   marker_ref, deltaHidden, delta_marker, error, trace>>

\* Fault: resetReference toggles the reset button instead of disabling it.
AfterTitle_Toggled ==
    /\ IF fop = "resetReference"
       THEN /\ charts' = [charts EXCEPT !.refOn = FALSE, !.ref11 = <<>>,
                                        !.ref21 = <<>>]
            /\ btnResetDisabled' = ~btnResetDisabled
       ELSE UNCHANGED <<charts, btnResetDisabled>>
    /\ Return(fop)

\* What follows updateTitle in the handler that called it, up to its return:
\* resetReference tells every subscribing chart to drop its reference and
\* disables the reset button; dataUpdated emits data_available; setReference
\* returns.
AfterTitle ==
    /\ IF fop = "resetReference"
       THEN /\ charts' = [charts EXCEPT !.refOn = FALSE, !.ref11 = <<>>,
                                        !.ref21 = <<>>]
            /\ btnResetDisabled' = TRUE
       ELSE UNCHANGED <<charts, btnResetDisabled>>
    /\ Return(fop)

\* updateTitle: if self.sweepSource != ""
UpdateTitle_Test ==
    /\ fpc = "ut_test"
    /\ IF sweepSource # NoSource
       THEN /\ fpc' = "ut_src"
            /\ UNCHANGED <<title, charts, btnResetDisabled, fop, fl, trace>>
       ELSE /\ title' = TitleOf(NoSource, 0)
            /\ AfterTitle
    /\ UNCHANGED <<sharedVars, workerVars, configVars, fq, raised,
                   ref_data, referenceSource, markers, marker_ref, deltaHidden,
                   delta_marker, labels, sweep_control, error>>

\* updateTitle: f"Sweep: {self.sweepSource} ..."
UpdateTitle_Source ==
    /\ fpc = "ut_src"
    /\ fl' = [fl EXCEPT !.tsrc = sweepSource]
    /\ fpc' = "ut_len"
    /\ UNCHANGED <<sharedVars, workerVars, configVars, fop, fq, raised,
                   ref_data, referenceSource, title, btnResetDisabled, charts,
                   markers, marker_ref, deltaHidden, delta_marker, labels,
                   sweep_control, error, trace>>

\* updateTitle: f"... @ {len(self.data.s11)} points", the reference part and
\* setWindowTitle; then the rest of the calling handler.
UpdateTitle_Points ==
    /\ fpc = "ut_len"
    /\ title' = TitleOf(fl.tsrc, Len(data.s11))
    /\ AfterTitle
    /\ UNCHANGED <<sharedVars, workerVars, configVars, fq, raised,
                   ref_data, referenceSource, markers, marker_ref, deltaHidden,
                   delta_marker, labels, sweep_control, error>>

\* setReference() is called without arguments by the "Set current as
\* reference" button: "if not s11" sends it to the snapshot.
SetReference_Call ==
    /\ UserCall
    /\ fl' = NoLocals
    /\ fpc' = "sr_lock"
    /\ fop' = "setReference"
    /\ raised' = "none"
    /\ UNCHANGED <<sharedVars, workerVars, configVars, fq, ref_data,
                   referenceSource, title, btnResetDisabled, charts, markers,
                   marker_ref, deltaHidden, delta_marker, labels,
                   sweep_control, error, trace>>

\* setReference(s11, s21, source) is called with data and a source label (a
\* loaded file): empty s11 still goes to the snapshot, "if not s11".
SetReference_CallWithData ==
    /\ UserCall
    /\ \E w \in PairInputs :
          /\ fl' = [NoLocals EXCEPT !.s11 = w.s11, !.s21 = w.s21,
                                    !.source = FileSource]
          /\ fpc' = IF w.s11 # <<>> THEN "sr_store" ELSE "sr_lock"
    /\ fop' = "setReference"
    /\ raised' = "none"
    /\ UNCHANGED <<sharedVars, workerVars, configVars, fq, ref_data,
                   referenceSource, title, btnResetDisabled, charts, markers,
                   marker_ref, deltaHidden, delta_marker, labels,
                   sweep_control, error, trace>>

\* setReference: with self.dataLock:
SetReference_Acquire ==
    /\ fpc = "sr_lock"
    /\ Acquire("fg")
    /\ fpc' = "sr_r11"
    /\ UNCHANGED fl
    /\ SnapshotFrame

\* s11 = self.data.s11[:]
SetReference_CopyS11 ==
    /\ fpc = "sr_r11"
    /\ fl' = [fl EXCEPT !.s11 = data.s11]
    /\ fpc' = "sr_r21"
    /\ UNCHANGED dataLock
    /\ SnapshotFrame

\* s21 = self.data.s21[:]
SetReference_CopyS21 ==
    /\ fpc = "sr_r21"
    /\ fl' = [fl EXCEPT !.s21 = data.s21]
    /\ fpc' = "sr_unlock"
    /\ UNCHANGED dataLock
    /\ SnapshotFrame

\* Leaving the with block.
SetReference_Release ==
    /\ fpc = "sr_unlock"
    /\ Release
    /\ fpc' = "sr_store"
    /\ UNCHANGED fl
    /\ SnapshotFrame

\* Fault: setReference stores the live s21 list, not its copy.
StoredReference_Live == [s11 |-> fl.s11, s21 |-> data.s21]

\* The reference setReference stores from its locals s11, s21.
StoredReference == [s11 |-> fl.s11, s21 |-> fl.s21]

\* setReference: ref_data and the charts' references are set from s11, s21,
\* the reset button is enabled, referenceSource = source or self.sweepSource.
SetReference_Store ==
    /\ fpc = "sr_store"
    /\ ref_data' = StoredReference
    /\ charts' = [charts EXCEPT !.refOn = TRUE, !.ref11 = fl.s11,
                                !.ref21 = fl.s21]
    /\ btnResetDisabled' = FALSE
    /\ referenceSource' = IF fl.source # NoSource THEN fl.source
                          ELSE sweepSource
    /\ fpc' = "ut_test"
    /\ UNCHANGED <<sharedVars, workerVars, configVars, fop, fl, fq,
                   raised, title, markers, marker_ref, deltaHidden,
                   delta_marker, labels, sweep_control, error, trace>>

\* resetReference: ref_data = Touchstone(), referenceSource = "".
ResetReference_Clear ==
    /\ UserCall
    /\ fop' = "resetReference"
    /\ fl' = NoLocals
    /\ raised' = "none"
    /\ ref_data' = Touchstone
    /\ referenceSource' = NoSource
    /\ fpc' = "ut_test"
    /\ UNCHANGED <<sharedVars, workerVars, configVars, fq, title,
                   btnResetDisabled, charts, markers, marker_ref, deltaHidden,
                   delta_marker, labels, sweep_control, error, trace>>

\* ------------------------------------------------------------ markerUpdated
\* Everything a step of markerUpdated inside the with block leaves alone.
MarkerFrame ==
    UNCHANGED <<data, sweepSource, workerVars, configVars, fop, fl, fq,
                raised, ref_data, referenceSource, title, btnResetDisabled,
                charts, marker_ref, deltaHidden, delta_marker, labels,
                sweep_control, error, trace>>

\* A marker's updated signal calls markerUpdated(marker): the user edited
\* marker m's frequency.
MarkerUpdated_Begin ==
    /\ UserCall
    /\ \E m \in 1..Len(markers) : fl' = [NoLocals EXCEPT !.m = m]
    /\ fop' = "markerUpdated"
    /\ fq' = <<>>
    /\ raised' = "none"
    /\ fpc' = "mu_lock"
    /\ UNCHANGED <<sharedVars, workerVars, configVars, ref_data,
                   referenceSource, title, btnResetDisabled, charts, markers,
                   marker_ref, deltaHidden, delta_marker, labels,
                   sweep_control, error, trace>>

\* markerUpdated: with self.dataLock:
MarkerUpdated_Acquire ==
    /\ fpc = "mu_lock"
    /\ Acquire("fg")
    /\ fpc' = "mu_find"
    /\ UNCHANGED markers
    /\ MarkerFrame

\* marker.findLocation(self.data.s11); marker.resetLabels()
MarkerUpdated_Find ==
    /\ fpc = "mu_find"
    /\ markers' = [markers EXCEPT
                     ![fl.m] = resetLabels(findLocation(@, data.s11))]
    /\ fpc' = "mu_upd"
    /\ UNCHANGED dataLock
    /\ MarkerFrame

\* marker.updateLabels(self.data.s11, self.data.s21)
MarkerUpdated_Labels ==
    /\ fpc = "mu_upd"
    /\ markers' = [markers EXCEPT
                     ![fl.m] = updateLabels(@, data.s11, data.s21)]
    /\ fpc' = "mu_charts"
    /\ UNCHANGED dataLock
    /\ MarkerFrame

\* for c in self.subscribing_charts: c.update()
MarkerUpdated_Charts ==
    /\ fpc = "mu_charts"
    /\ fpc' = "mu_unlock"
    /\ UNCHANGED <<dataLock, markers>>
    /\ MarkerFrame

\* Leaving the with block.
MarkerUpdated_Release ==
    /\ fpc = "mu_unlock"
    /\ Release
    /\ fpc' = "mu_delta"
    /\ UNCHANGED markers
    /\ MarkerFrame

\* Marker.count(): the number of live markers.
MarkerCount == Len(markers)

\* "if self.ref_data": a reference is present unless ref_data is in the
\* "no reference" state.
RefPresent == ref_data # Touchstone

\* No second operand.
NoOperand == [kind |-> "none"]

\* The live marker self.markers[i - 1]; an IndexError when there is none.
LiveOperand(i) ==
    IF i <= Len(markers) THEN [kind |-> "live", idx |-> i]
    ELSE [kind |-> "IndexError"]

\* m2 = Marker("Reference") placed at the first marker's location, with
\* labels from the reference data.
ReferenceOperand ==
    [kind |-> "reference",
     m |-> updateLabels(
             resetLabels([NewMarker(0) EXCEPT
                            !.location = markers[1].location]),
             ref_data.s11, ref_data.s21)]

\* Fault: a second live marker is looked up with a single marker present.
SecondOperand_OneMarker ==
    IF marker_ref
    THEN (IF RefPresent THEN ReferenceOperand ELSE NoOperand)
    ELSE IF MarkerCount >= 1 THEN LiveOperand(2)
    ELSE NoOperand

\* Fault: two live markers take precedence over the reference mode.
SecondOperand_LiveFirst ==
    IF MarkerCount >= 2 THEN LiveOperand(2)
    ELSE IF marker_ref /\ RefPresent THEN ReferenceOperand
    ELSE NoOperand

\* markerUpdated's choice of m2.
SecondOperand ==
    IF marker_ref
    THEN (IF RefPresent THEN ReferenceOperand ELSE NoOperand)
    ELSE IF MarkerCount >= 2 THEN LiveOperand(2)
    ELSE NoOperand

\* The marker an operand of the delta marker stands for.
OperandMarker(o) == IF o.kind = "live" THEN markers[o.idx] ELSE o.m

\* DeltaMarker.updateLabels: each field of operand b minus that of operand
\* a; a field either operand lacks stays blank (the IndexError is swallowed).
DeltaLabels(a, b) ==
    LET ma == OperandMarker(a)
        mb == OperandMarker(b)
    IN  [s11 |-> IF ma.s11 # Blank /\ mb.s11 # Blank
                 THEN <<mb.s11[1].gain - ma.s11[1].gain>> ELSE Blank,
         s21 |-> IF ma.s21 # Blank /\ mb.s21 # Blank
                 THEN <<mb.s21[1].gain - ma.s21[1].gain>> ELSE Blank]

\* The end of one markerUpdated call: the handler that emitted the marker
\* signals goes on with its next marker, or returns.
MarkerUpdated_End ==
    IF fq # <<>> /\ raised' = "none"
    THEN /\ fl' = [fl EXCEPT !.m = Head(fq)]
         /\ fq' = Tail(fq)
         /\ fpc' = "mu_lock"
         /\ UNCHANGED <<fop, trace>>
    ELSE /\ fq' = <<>>
         /\ Return(fop)

\* markerUpdated after the with block: the delta marker.
MarkerUpdated_Delta ==
    /\ fpc = "mu_delta"
    /\ IF deltaHidden
       THEN UNCHANGED <<delta_marker, raised>>
       ELSE LET m1 == LiveOperand(1)
                m2 == SecondOperand
            IN  IF m1.kind = "IndexError" \/ m2.kind = "IndexError"
                THEN /\ raised' = "IndexError"
                     /\ UNCHANGED delta_marker
                ELSE IF m2 = NoOperand
                THEN UNCHANGED <<delta_marker, raised>>
                ELSE /\ delta_marker' = [set |-> TRUE, a |-> m1, b |-> m2,
                                         labels |-> DeltaLabels(m1, m2)]
                     /\ UNCHANGED raised
    /\ MarkerUpdated_End
    /\ UNCHANGED <<sharedVars, workerVars, configVars, ref_data,
                   referenceSource, title, btnResetDisabled, charts, markers,
                   marker_ref, deltaHidden, labels, sweep_control, error>>

\* MarkerControl: the "reference" check box sets self.marker_ref.
ToggleReference ==
    /\ UserCall
    /\ marker_ref' = ~marker_ref
    /\ trace' = Traced("marker_ref")
    /\ UNCHANGED <<sharedVars, workerVars, configVars, fpc, fop, fl, fq,
                   raised, ref_data, referenceSource, title, btnResetDisabled,
                   charts, markers, deltaHidden, delta_marker, labels,
                   sweep_control, error>>

\* MarkerControl: the "delta" check box shows or hides delta_marker_layout.
ToggleDelta ==
    /\ UserCall
    /\ deltaHidden' = ~deltaHidden
    /\ trace' = Traced("delta")
    /\ UNCHANGED <<sharedVars, workerVars, configVars, fpc, fop, fl, fq,
                   raised, ref_data, referenceSource, title, btnResetDisabled,
                   charts, markers, marker_ref, delta_marker, labels,
                   sweep_control, error>>

\* ------------------------------------------------------------ sweep control
\* _sweep_control(start)
_sweep_control(start) ==
    sweep_control' = [progress |-> IF start THEN 0 ELSE 100,
                      start_disabled |-> start,
                      stop_disabled |-> ~start]

\* Fault: sweep_start does not test the connection.
sweep_start_Unguarded ==
    /\ UserCall
    /\ ~sweep_control.start_disabled
    /\ _sweep_control(TRUE)
    /\ markers' = [i \in 1..Len(markers) |-> resetLabels(markers[i])]
    /\ labels' = [min_swr |-> Blank, min_rl |-> Blank,
                  min_gain |-> Blank, max_gain |-> Blank]
    /\ wpc' = IF wpc = "stopped" THEN "run" ELSE wpc
    /\ trace' = Traced("sweep_start")
    /\ UNCHANGED <<sharedVars, warg, nwrites, events, hist, configVars,
                   fpc, fop, fl, fq, raised, ref_data, referenceSource, title,
                   btnResetDisabled, charts, marker_ref, deltaHidden,
                   delta_marker, error>>

\* The device is unplugged: self.vna.connected() is false from now on.
DeviceLost ==
    /\ connected
    /\ connected' = FALSE
    /\ UNCHANGED <<sharedVars, workerVars, fgVars, s21att, pa>>

\* sweep_start: nothing when the device is not connected; otherwise the
\* controls switch to "sweeping", the labels are reset, the worker started.
sweep_start ==
    /\ UserCall
    /\ ~sweep_control.start_disabled
    /\ IF ~connected
       THEN UNCHANGED <<sweep_control, markers, labels, wpc>>
       ELSE /\ _sweep_control(TRUE)
            /\ markers' = [i \in 1..Len(markers) |-> resetLabels(markers[i])]
            /\ labels' = [min_swr |-> Blank, min_rl |-> Blank,
                          min_gain |-> Blank, max_gain |-> Blank]
            /\ wpc' = IF wpc = "stopped" THEN "run" ELSE wpc
    /\ trace' = Traced("sweep_start")
    /\ UNCHANGED <<sharedVars, warg, nwrites, events, hist, configVars,
                   fpc, fop, fl, fq, raised, ref_data, referenceSource, title,
                   btnResetDisabled, charts, marker_ref, deltaHidden,
                   delta_marker, error>>

\* sweepFinished: the controls switch back; every marker's frequency input
\* re-emits textEdited, which runs markerUpdated for that marker.
SweepFinishedBody ==
    /\ _sweep_control(FALSE)
    /\ fl' = [NoLocals EXCEPT !.m = 1]
    /\ fq' = [i \in 1..(Len(markers) - 1) |-> i + 1]
    /\ fpc' = "mu_lock"

\* sweepFinished is run for a queued "finished" notification.
sweepFinished ==
    /\ fpc = "idle"
    /\ events # <<>>
    /\ Head(events).sig = "finished"
    /\ events' = Tail(events)
    /\ fop' = "sweepFinished"
    /\ raised' = "none"
    /\ SweepFinishedBody
    /\ UNCHANGED <<sharedVars, wpc, warg, nwrites, hist, configVars,
                   ref_data, referenceSource, title, btnResetDisabled, charts,
                   markers, marker_ref, deltaHidden, delta_marker, labels,
                   error, trace>>

\* Outcomes of a serial operation inside "with contextlib.suppress(IOError)".
IOOutcomes == {"ok", "IOError"}

\* showSweepError is run for a queued "sweep_error" notification: the
\* message is shown; flushSerialBuffers and reconnect run inside one
\* suppress(IOError) block, so a failed flush skips the reconnect; then
\* sweepFinished().
showSweepError ==
    /\ fpc = "idle"
    /\ events # <<>>
    /\ Head(events).sig = "sweep_error"
    /\ events' = Tail(events)
    /\ fop' = "showSweepError"
    /\ raised' = "none"
    /\ \E flush \in IOOutcomes, reconnect \in IOOutcomes :
          error' = [shown |-> TRUE, flush |-> flush,
                    reconnect |-> IF flush = "ok" THEN reconnect ELSE "none"]
    /\ SweepFinishedBody
    /\ UNCHANGED <<sharedVars, wpc, warg, nwrites, hist, configVars,
                   ref_data, referenceSource, title, btnResetDisabled, charts,
                   markers, marker_ref, deltaHidden, delta_marker, labels,
                   trace>>

\* ------------------------------------------- I2C expander configuration
\* Strings are sequences of one-character strings.
I2C_ADDRESSES == <<32, 33, 34, 35>>

\* The characters the pattern's \d accepts.
Digits == {"0", "1", "2", "3", "4", "5", "6", "7", "8", "9"}

\* The digits int(bits, 2) accepts.
BinaryDigits == {"0", "1"}

\* White space str.strip() removes from both ends.
IsSpace(c) == c \in {" ", "\t"}

RECURSIVE lstrip(_)
lstrip(s) == IF s # <<>> /\ IsSpace(Head(s)) THEN lstrip(Tail(s)) ELSE s

RECURSIVE rstrip(_)
rstrip(s) ==
    IF s # <<>> /\ IsSpace(s[Len(s)]) THEN rstrip(SubSeq(s, 1, Len(s) - 1))
    ELSE s

NotBlank(c) == c # " "

\* input_str.strip().replace(" ", "")
Normalised(input_str) == SelectSeq(rstrip(lstrip(input_str)), NotBlank)

\* re.fullmatch(r"\[(\d{4})\]\[(\d{4})\]\[(\d{4})\]\[(\d{4})\]", t)
fullmatch(t) ==
    /\ Len(t) = 24
    /\ \A g \in 0..3 :
          /\ t[6 * g + 1] = "["
          /\ \A k \in 2..5 : t[6 * g + k] \in Digits
          /\ t[6 * g + 6] = "]"

\* match.group(i), i in 1..4
group(t, i) == SubSeq(t, 6 * (i - 1) + 2, 6 * (i - 1) + 5)

\* int(bits, 2) of a string of binary digits.
RECURSIVE int2(_)
int2(bits) ==
    IF bits = <<>> THEN 0
    ELSE 2 * int2(SubSeq(bits, 1, Len(bits) - 1))
           + (IF bits[Len(bits)] = "1" THEN 1 ELSE 0)

\* int(bits, 2) raises ValueError on a digit that is not binary.
RaisesValueError(bits) == \E k \in 1..Len(bits) : bits[k] \notin BinaryDigits

\* Fault: the complement goes to the high nibble, the value to the low one.
ByteOf_Swapped(nibble) == (((-nibble - 1) % 16) * 16) + nibble

\* complement = (~nibble) & 0x0F; byte = (nibble << 4) | complement
ByteOf(nibble) ==
    LET complement == (-nibble - 1) % 16
    IN  (nibble * 16) + complement

\* parse_four_inputs: None with the diagnostic printed, a ValueError out of
\* int(bits, 2), or the list of four bytes.
parse_four_inputs(input_str) ==
    LET t == Normalised(input_str)
    IN  IF ~fullmatch(t)
        THEN [kind |-> "None", diagnostic |-> TRUE, bytes |-> <<>>]
        ELSE IF \E i \in 1..4 : RaisesValueError(group(t, i))
        THEN [kind |-> "ValueError", diagnostic |-> FALSE, bytes |-> <<>>]
        ELSE [kind |-> "list", diagnostic |-> FALSE,
              bytes |-> [i \in 1..4 |-> ByteOf(int2(group(t, i)))]]

\* What the bus does for one expander address: "absent" fails the read of
\* _check_device, "fails" answers the read but raises on write_byte, "ok"
\* answers both.
BusStates == {"absent", "ok", "fails"}

\* PCF8574._check_device
available(bus, i) == bus[i] # "absent"

\* PCF8574.write_all(value) on expander i: the bus writes it attempts.  An
\* unavailable expander is skipped; a failing write is printed and swallowed.
write_all(bus, i, value) ==
    IF ~available(bus, i) THEN <<>>
    ELSE <<[address |-> I2C_ADDRESSES[i], value |-> value % 256,
            ok |-> bus[i] = "ok"]>>

\* PCF8574.clear
clear(bus, i) == write_all(bus, i, 255)

\* Fault: the first write that fails ends the loop.
WriteEach_Abort(bus, values) ==
    LET failing == {i \in 1..4 : bus[i] = "fails"}
        last == IF failing = {} THEN 4
                ELSE CHOOSE i \in failing : \A j \in failing : i <= j
        try(i) == IF i <= last THEN write_all(bus, i, values[i]) ELSE <<>>
    IN  try(1) \o try(2) \o try(3) \o try(4)

\* The writes of "for expander, value in zip(expanders, values)".
WriteEach(bus, values) ==
    write_all(bus, 1, values[1]) \o write_all(bus, 2, values[2])
        \o write_all(bus, 3, values[3]) \o write_all(bus, 4, values[4])

\* The sixteen 4-bit group texts.
BitGroups ==
    {<<a, b, c, d>> : a \in BinaryDigits, b \in BinaryDigits,
                      c \in BinaryDigits, d \in BinaryDigits}

\* Group texts that are not four binary digits: a digit above 1, a letter,
\* too short, too long.
BadGroups ==
    {<<"0", "1", "2", "3">>, <<"0", "1", "a", "1">>, <<"0", "1", "0">>,
     <<"0", "1", "0", "1", "1">>}

\* The texts tried for the groups after the first.
RestGroups == {<<"1", "1", "0", "0">>, <<"0", "9", "0", "1">>}

Bracketed(g) == <<"[">> \o g \o <<"]">>

\* "[a][b][c][d]"
Cfg(a, b, c, d) == Bracketed(a) \o Bracketed(b) \o Bracketed(c) \o Bracketed(d)

\* Other shapes around a first group a: blanks around and between the
\* groups, a group missing, a group too many, the last bracket missing.
Shapes(a) ==
    LET g == <<"1", "1", "0", "0">>
    IN  {<<" ">> \o Bracketed(a) \o <<" ">> \o Bracketed(g) \o Bracketed(g)
             \o Bracketed(g) \o <<" ", "\t">>,
         Bracketed(a) \o Bracketed(g) \o Bracketed(g),
         Cfg(a, g, g, g) \o Bracketed(g),
         SubSeq(Cfg(a, g, g, g), 1, 23),
         Bracketed(a) \o <<"\t">> \o Bracketed(g) \o Bracketed(g)
             \o Bracketed(g)}

\* The configuration strings configure_pa is called with.
CfgInputs ==
    {Cfg(a, b, c, d) : a \in BitGroups \cup BadGroups,
                       b \in RestGroups, c \in RestGroups, d \in RestGroups}
        \cup UNION {Shapes(a) : a \in BitGroups \cup BadGroups}
        \cup {<<>>}

\* configure_pa(cfg).  args is a global this module never binds: args.clear
\* is taken as an input of the call.  The four expanders are constructed
\* and probed, then either cleared, or written with the parsed bytes.  In
\* the latter branch a ValueError leaves parse_four_inputs, and indexing a
\* None result for the print raises TypeError, both before any write.
\* One call is modelled per behaviour: every call builds its expanders anew.
configure_pa ==
    /\ UserCall
    /\ ~pa.called
    /\ \E cfg \in CfgInputs, args_clear \in BOOLEAN,
          bus \in [1..Len(I2C_ADDRESSES) -> BusStates] :
          LET result == parse_four_inputs(cfg)
              call == [NoCall EXCEPT !.called = TRUE, !.cfg = cfg,
                                     !.clear = args_clear, !.bus = bus]
          IN  pa' =
                IF args_clear
                THEN [call EXCEPT
                        !.outcome = "done",
                        !.writes = clear(bus, 1) \o clear(bus, 2)
                                     \o clear(bus, 3) \o clear(bus, 4)]
                ELSE IF result.kind = "ValueError"
                THEN [call EXCEPT !.outcome = "ValueError",
                                  !.parsed = "ValueError"]
                ELSE IF result.kind = "None"
                THEN [call EXCEPT !.outcome = "TypeError",
                                  !.parsed = "None",
                                  !.diagnostic = result.diagnostic]
                ELSE [call EXCEPT !.outcome = "done",
                                  !.parsed = "list",
                                  !.result = result.bytes,
                                  !.writes = WriteEach(bus, result.bytes)]
    /\ UNCHANGED <<sharedVars, workerVars, fgVars, s21att, connected>>

DataUpdated ==
    \/ DataUpdated_Begin
    \/ DataUpdated_Acquire
    \/ DataUpdated_CopyS11
    \/ DataUpdated_CopyS21
    \/ DataUpdated_Release
    \/ DataUpdated_Push

UpdateTitle ==
    \/ UpdateTitle_Test
    \/ UpdateTitle_Source
    \/ UpdateTitle_Points

SetReference ==
    \/ SetReference_Call
    \/ SetReference_Acquire
    \/ SetReference_CopyS11
    \/ SetReference_CopyS21
    \/ SetReference_Release
    \/ SetReference_Store

MarkerUpdated ==
    \/ MarkerUpdated_Acquire
    \/ MarkerUpdated_Find
    \/ MarkerUpdated_Labels
    \/ MarkerUpdated_Charts
    \/ MarkerUpdated_Release
    \/ MarkerUpdated_Delta

Foreground ==
    \/ LoadSweepFile
    \/ LoadAnySweep
    \/ DataUpdated
    \/ UpdateTitle
    \/ SetReference
    \/ SetReference_CallWithData
    \/ ResetReference_Clear
    \/ MarkerUpdated_Begin
    \/ MarkerUpdated
    \/ ToggleReference
    \/ ToggleDelta
    \/ sweep_start
    \/ sweepFinished
    \/ showSweepError
    \/ configure_pa

\* The whole program and its device.
Next == Worker \/ Foreground \/ DeviceLost

Spec == Init /\ [][Next]_vars

\* ------------------------------------------------------- the sweep pipeline
\* The worker thread against the handlers of its three notifications
\* (dataUpdated, sweepFinished, showSweepError, with the markerUpdated calls
\* and the title update they make).  The handlers left out write none of
\* dataLock, data, sweepSource, title, charts.s11/s21 or the positions.
SweepNext ==
    \/ Worker
    \/ sweep_start
    \/ DataUpdated
    \/ UpdateTitle
    \/ sweepFinished
    \/ showSweepError
    \/ MarkerUpdated
    \/ DeviceLost

SpecSweep == Init /\ [][SweepNext]_vars

\* ---------------------------------------------------- the reference buffer
\* The worker thread against the consumers of the snapshot and of the
\* reference: dataUpdated, setReference(), resetReference, updateTitle.
ReferenceNext ==
    \/ Worker
    \/ sweep_start
    \/ DataUpdated
    \/ UpdateTitle
    \/ SetReference
    \/ ResetReference_Clear

SpecReference == Init /\ [][ReferenceNext]_vars

\* -------------------------------------------------------------- the markers
\* The foreground thread alone (data comes from a loaded file, no worker
\* running): marker edits, the delta and reference check boxes, the
\* reference being set and reset.
MarkerNext ==
    \/ LoadSweepFile
    \/ DataUpdated_Acquire
    \/ DataUpdated_CopyS11
    \/ DataUpdated_CopyS21
    \/ DataUpdated_Release
    \/ DataUpdated_Push
    \/ UpdateTitle
    \/ SetReference
    \/ ResetReference_Clear
    \/ MarkerUpdated_Begin
    \/ MarkerUpdated
    \/ ToggleReference
    \/ ToggleDelta

SpecMarker == Init /\ [][MarkerNext]_vars

\* ------------------------------------------------- the amplifier switch
SpecPA == Init /\ [][configure_pa]_vars

\* ------------------------------------------------- the statistics labels
\* dataUpdated on the foreground thread alone, over every sweep of
\* AnyPairInputs.
StatsNext ==
    \/ LoadAnySweep
    \/ DataUpdated_Acquire
    \/ DataUpdated_CopyS11
    \/ DataUpdated_CopyS21
    \/ DataUpdated_Release
    \/ DataUpdated_Push
    \/ UpdateTitle

SpecStats == Init /\ [][StatsNext]_vars

\* =============================================================== properties
\* The snapshot a handler holds in its locals.
Snapshot == [s11 |-> fl.s11, s21 |-> fl.s21]

\* The pair a history entry stored.
PairOf(h) == [s11 |-> h.s11, s21 |-> h.s21]

\* Positions of updateTitle.
TitlePcs == {"ut_test", "ut_src", "ut_len"}

\* The handler in progress took a snapshot of the buffer (it was given no
\* data) and has both copies in its locals.
HoldsSnapshot ==
    /\ fl.source = NoSource
    /\ \/ fpc \in {"du_unlock", "du_push", "sr_unlock", "sr_store"}
       \/ fop \in {"dataUpdated", "setReference"} /\ fpc \in TitlePcs

\* C1: a snapshot taken by dataUpdated or by setReference() without data is
\* the pair one single saveData call stored (or the empty pair the buffer
\* starts with): never s11 of one call with s21 of another, and with
\* s21att > 0 never the s21 a call was handed before the correction.
C1_SnapshotIsOneWrite ==
    HoldsSnapshot =>
        /\ \/ Snapshot = Touchstone
           \/ \E k \in 1..Len(hist) : Snapshot = PairOf(hist[k])
        /\ s21att > 0 =>
              \A k \in 1..Len(hist) :
                  hist[k].raw21 # <<>> => fl.s21 # hist[k].raw21

\* C1 witness: dataUpdated holds a snapshot with corrected s21 after two
\* calls that stored different s11 and different s21.
C1_Witness ==
    /\ fop = "dataUpdated"
    /\ fpc = "du_push"
    /\ s21att > 0
    /\ Len(hist) = 2
    /\ hist[1].s11 # hist[2].s11
    /\ hist[1].s21 # hist[2].s21
    /\ fl.s21 # <<>>

\* The next step of the foreground calls into the subscribing charts.
FanOut ==
    \/ fpc \in {"du_push", "sr_store", "mu_charts"}
    \/ fop = "resetReference" /\ fpc \in {"ut_test", "ut_len"}

\* C2: the foreground never calls into the charts while it holds dataLock.
C2_NoFanOutUnderLock == FanOut => dataLock # "fg"

\* Positions whose next step reads data.s11 or data.s21.
BufferReadPcs ==
    {"du_r11", "du_r21", "sr_r11", "sr_r21", "mu_find", "mu_upd", "ut_len"}

\* Positions of saveData between its first and its last write to the buffer.
BufferWritePcs == {"sd_s11", "sd_s21", "sd_corr"}

\* C3: every foreground read of data.s11 / data.s21 is made holding
\* dataLock, so none overlaps the writes of a saveData call.
C3_ReadsUnderLock ==
    fpc \in BufferReadPcs => dataLock = "fg" /\ wpc \notin BufferWritePcs

\* C4: once dataUpdated has returned, the title's sweep source and point
\* count are those of one saveData call, the call whose s11 the charts were
\* given.
C4_TitleMatchesSnapshot ==
    fpc = "idle" /\ trace.op = "dataUpdated" =>
        /\ title.sweep # <<>>
        /\ \E k \in 1..Len(hist) :
              /\ hist[k].source = title.sweep[1]
              /\ Len(hist[k].s11) = title.sweep[2]
              /\ hist[k].s11 = charts.s11

\* C5: the snapshot of a dataUpdated run for the notification of call n is
\* the pair stored by call n or by a later call, and when taken it is the
\* pair of the last call completed.
C5_HandlerSeesItsWrite ==
    fop = "dataUpdated" /\ fpc \in {"du_unlock", "du_push"} \cup TitlePcs =>
        /\ fl.trigger >= 1
        /\ \E k \in fl.trigger..Len(hist) : Snapshot = PairOf(hist[k])
        /\ fpc = "du_unlock" => Snapshot = PairOf(hist[Len(hist)])

\* C5 witness: the handler of the first notification holds the pair of the
\* second call, which differs from the first call's.
C5_Witness ==
    /\ fop = "dataUpdated"
    /\ fpc = "du_push"
    /\ fl.trigger = 1
    /\ Len(hist) = 2
    /\ PairOf(hist[1]) # PairOf(hist[2])
    /\ Snapshot = PairOf(hist[2])

\* C6: setReference() without data stores the buffer contents of the moment
\* of its capture: its copies equal the buffer while the lock is still held,
\* the reference it stores is those copies, and no step of the worker
\* (a later saveData) changes the stored reference.
C6_Step ==
    /\ fpc = "sr_unlock" /\ fl.source = NoSource => Snapshot = data
    /\ fpc = "sr_store" /\ fl.source = NoSource /\ fpc' # fpc =>
          ref_data' = Snapshot
    /\ wpc' # wpc => ref_data' = ref_data

C6_ReferenceIsCapture == [][C6_Step]_vars

\* C6 witness: the reference captured after the first call is still that
\* call's pair after a second call has stored a different one.
C6_Witness ==
    /\ fpc = "idle"
    /\ trace.op = "other"
    /\ ~btnResetDisabled
    /\ Len(hist) = 2
    /\ wpc \notin {"sd_lock"} \cup BufferWritePcs
    /\ ref_data = PairOf(hist[1])
    /\ data = PairOf(hist[2])
    /\ ref_data.s11 # data.s11
    /\ ref_data.s21 # data.s21

\* What resetReference settles: no reference data, no reference source, no
\* reference part in the title, the reset button disabled, no reference
\* shown by the charts.
ReferenceView ==
    <<ref_data, referenceSource, title.ref, btnResetDisabled, charts.refOn,
      charts.ref11, charts.ref21>>

NoReferenceView == <<Touchstone, NoSource, <<>>, TRUE, FALSE, <<>>, <<>>>>

\* C7: a resetReference that returns leaves the "no reference" state, and a
\* resetReference that follows one changes nothing of it at any step: twice
\* is the same as once.
C7_Step ==
    /\ fop = "resetReference" /\ fpc' = "idle" =>
          ReferenceView' = NoReferenceView
    /\ trace.op = "resetReference"
         /\ (fop = "resetReference" \/ fop' = "resetReference") =>
          ReferenceView' = ReferenceView

C7_ResetIdempotent == [][C7_Step]_vars

\* C7 witness: resetReference has returned twice in a row, with a sweep
\* stored and shown in the title.
C7_Witness ==
    /\ fpc = "idle"
    /\ trace.op = "resetReference"
    /\ trace.again
    /\ title.sweep # <<>>
    /\ ReferenceView = NoReferenceView

\* C8: with the delta display visible, markerUpdated leaves the delta marker
\* as it was and raises nothing when the second operand is missing: a single
\* marker outside reference mode, or reference mode with no reference set
\* (the reset button is disabled exactly then).
C8_Step ==
    /\ fpc = "mu_delta"
    /\ ~deltaHidden
    /\ \/ ~marker_ref /\ Len(markers) < 2
       \/ marker_ref /\ btnResetDisabled
    => delta_marker' = delta_marker /\ raised' = "none"

LabelAt(s, loc) == IF loc \in 1..Len(s) THEN <<s[loc]>> ELSE Blank

\* C9: when markerUpdated computes a delta, the first operand is the first
\* live marker; in reference mode (a reference present) the second is a
\* marker at the first marker's location labelled from the reference data,
\* whatever the number of live markers; otherwise, with two live markers,
\* it is the second live marker.
C9_Step ==
    fpc = "mu_delta" /\ ~deltaHidden =>
        /\ marker_ref /\ ref_data # Touchstone =>
              /\ delta_marker'.set
              /\ delta_marker'.a = [kind |-> "live", idx |-> 1]
              /\ delta_marker'.b.kind = "reference"
              /\ delta_marker'.b.m.location = markers[1].location
              /\ delta_marker'.b.m.s11 =
                     LabelAt(ref_data.s11, markers[1].location)
              /\ delta_marker'.b.m.s21 =
                     IF delta_marker'.b.m.s11 = Blank THEN Blank
                     ELSE LabelAt(ref_data.s21, markers[1].location)
        /\ ~marker_ref /\ Len(markers) >= 2 =>
              /\ delta_marker'.set
              /\ delta_marker'.a = [kind |-> "live", idx |-> 1]
              /\ delta_marker'.b = [kind |-> "live", idx |-> 2]

C9_DeltaOperands == [][C9_Step]_vars

\* C9 witness: markerUpdated has returned in reference mode with two live
\* markers, and the delta is against the reference marker.
C9_Witness ==
    /\ fpc = "idle"
    /\ trace.op = "markerUpdated"
    /\ ~deltaHidden
    /\ marker_ref
    /\ Len(markers) = 2
    /\ delta_marker.set
    /\ delta_marker.b.kind = "reference"
    /\ delta_marker.b.m.s11 # Blank
    /\ delta_marker.labels.s11 # Blank

\* A configuration text is well formed when, white space aside, it is four
\* bracketed groups of four characters, each 0 or 1.
WellFormed(cfg) ==
    LET t == SelectSeq(cfg, LAMBDA c : ~IsSpace(c))
    IN  /\ Len(t) = 24
        /\ \A g \in 0..3 :
              /\ t[6 * g + 1] = "["
              /\ \A k \in 2..5 : t[6 * g + k] \in BinaryDigits
              /\ t[6 * g + 6] = "]"

\* C10: called without args.clear on a text that is not well formed,
\* parse_four_inputs returns no byte list and prints its diagnostic, and
\* configure_pa writes to no expander.
C10_MalformedRejected ==
    pa.called /\ ~pa.clear /\ ~WellFormed(pa.cfg) =>
        /\ pa.parsed = "None"
        /\ pa.diagnostic
        /\ pa.writes = <<>>

\* The i-th group of a well-formed text, white space aside.
GroupText(cfg, i) ==
    LET t == SelectSeq(cfg, LAMBDA c : ~IsSpace(c))
    IN  <<t[6 * i - 4], t[6 * i - 3], t[6 * i - 2], t[6 * i - 1]>>

\* The value of a group of four binary digits, most significant first.
NibbleOf(g) ==
    LET bit(k) == IF g[k] = "1" THEN 1 ELSE 0
    IN  8 * bit(1) + 4 * bit(2) + 2 * bit(3) + bit(4)

\* Bit k (0 the least significant) of a natural number.
BitAt(x, k) == (x \div (2 ^ k)) % 2

\* C11: for an accepted text parse_four_inputs returns four bytes in group
\* order; the byte of a group of value n lies in 0..255, its high nibble is
\* n and each bit of its low nibble is the complement of the same bit of n
\* (so group 0101 gives 0x5A = 90).
C11_BytesOfGroups ==
    pa.called /\ pa.parsed = "list" =>
        /\ Len(pa.result) = 4
        /\ \A i \in 1..4 :
              LET n == NibbleOf(GroupText(pa.cfg, i))
                  byte == pa.result[i]
              IN  /\ byte \in 0..255
                  /\ byte \div 16 = n
                  /\ \A k \in 0..3 : BitAt(byte % 16, k) # BitAt(n, k)
                  /\ n = 5 => byte = 90

\* C11 witness: a text padded with blanks whose first group is 0101 was
\* accepted, and the first byte is 0x5A.
C11_Witness ==
    /\ pa.called
    /\ pa.parsed = "list"
    /\ pa.cfg[1] = " "
    /\ GroupText(pa.cfg, 1) = <<"0", "1", "0", "1">>
    /\ pa.result = <<90, 195, 195, 195>>

\* The bus writes sent to expander i.
WritesTo(i) ==
    {k \in 1..Len(pa.writes) : pa.writes[k].address = I2C_ADDRESSES[i]}

\* C12: with an accepted text and args.clear false, expander i is sent one
\* bus write, of byte i, when it passed its presence check, and none when
\* it did not, whatever the writes to the other expanders did; the writes
\* go out in expander order.
C12_WritesIsolated ==
    pa.called /\ ~pa.clear /\ pa.parsed = "list" =>
        /\ \A i \in 1..4 :
              IF pa.bus[i] = "absent" THEN WritesTo(i) = {}
              ELSE /\ Cardinality(WritesTo(i)) = 1
                   /\ \A k \in WritesTo(i) :
                         /\ pa.writes[k].value = pa.result[i]
                         /\ pa.writes[k].ok = (pa.bus[i] = "ok")
        /\ \A k \in 1..(Len(pa.writes) - 1) :
              pa.writes[k].address < pa.writes[k + 1].address

\* C12 witness: the first expander's write failed, the third was absent,
\* and the second and fourth were still written.
C12_Witness ==
    /\ pa.called
    /\ ~pa.clear
    /\ pa.parsed = "list"
    /\ pa.bus = <<"fails", "ok", "absent", "ok">>
    /\ Len(pa.writes) = 3
    /\ ~pa.writes[1].ok
    /\ pa.writes[2] = [address |-> 33, value |-> pa.result[2], ok |-> TRUE]
    /\ pa.writes[3] = [address |-> 35, value |-> pa.result[4], ok |-> TRUE]

\* What _sweep_control(False) leaves: progress 100, start enabled, stop
\* disabled.
FinishedControls ==
    [progress |-> 100, start_disabled |-> FALSE, stop_disabled |-> TRUE]

\* C13: once showSweepError has shown the error, the flush and the
\* reconnect have both been attempted, and the handler goes on with the
\* cleanup of sweepFinished whatever their outcome.
C13_ErrorCleanup ==
    /\ error.shown => error.flush # "none" /\ error.reconnect # "none"
    /\ fop = "showSweepError" =>
          error.shown /\ sweep_control = FinishedControls

\* dataUpdated has set the statistics labels from the snapshot in its locals.
LabelsSet == fop = "dataUpdated" /\ fpc \in TitlePcs

\* Point i of s is the first of the points of s with the least vswr.
FirstMinVswr(s, i) ==
    /\ \A j \in 1..Len(s) : s[i].vswr <= s[j].vswr
    /\ \A j \in 1..(i - 1) : s[j].vswr > s[i].vswr

\* Point i of s is the first of the points of s with the least gain.
FirstMinGain(s, i) ==
    /\ \A j \in 1..Len(s) : s[i].gain <= s[j].gain
    /\ \A j \in 1..(i - 1) : s[j].gain > s[i].gain

\* Point i of s is the first of the points of s with the greatest gain.
FirstMaxGain(s, i) ==
    /\ \A j \in 1..Len(s) : s[i].gain >= s[j].gain
    /\ \A j \in 1..(i - 1) : s[j].gain < s[i].gain

\* C14: the Min VSWR and return-loss labels show the first point of the S11
\* snapshot with the least vswr; the min-gain and max-gain labels show the
\* first point of the S21 snapshot with the least and the greatest gain.
C14_FirstExtremes ==
    LabelsSet =>
        /\ fl.s11 # <<>> =>
              \E i \in 1..Len(fl.s11) :
                  /\ FirstMinVswr(fl.s11, i)
                  /\ labels.min_swr = <<[vswr |-> fl.s11[i].vswr,
                                         freq |-> fl.s11[i].freq]>>
                  /\ labels.min_rl = <<fl.s11[i].gain>>
        /\ fl.s21 # <<>> =>
              /\ \E i \in 1..Len(fl.s21) :
                    /\ FirstMinGain(fl.s21, i)
                    /\ labels.min_gain = <<[gain |-> fl.s21[i].gain,
                                            freq |-> fl.s21[i].freq]>>
              /\ \E i \in 1..Len(fl.s21) :
                    /\ FirstMaxGain(fl.s21, i)
                    /\ labels.max_gain = <<[gain |-> fl.s21[i].gain,
                                            freq |-> fl.s21[i].freq]>>

\* C14 witness: the least vswr is shared by points 2 and 3 of the S11
\* snapshot and the label shows point 2; the greatest gain is shared by
\* points 1 and 3 of the S21 snapshot and the label shows point 1.
C14_Witness ==
    /\ LabelsSet
    /\ Len(fl.s11) = 3
    /\ fl.s11[1].vswr = 2 /\ fl.s11[2].vswr = 1 /\ fl.s11[3].vswr = 1
    /\ labels.min_swr = <<[vswr |-> 1, freq |-> 2]>>
    /\ Len(fl.s21) = 3
    /\ fl.s21[1].gain = fl.s21[3].gain
    /\ fl.s21[2].gain < fl.s21[1].gain
    /\ labels.max_gain = <<[gain |-> fl.s21[1].gain, freq |-> 1]>>

\* C15: after dataUpdated the Min VSWR and return-loss labels are blank
\* exactly when the S11 snapshot is empty, the min-gain and max-gain labels
\* exactly when the S21 snapshot is empty, each group whatever the other
\* snapshot holds.
C15_BlankIffEmpty ==
    LabelsSet =>
        /\ labels.min_swr = Blank <=> fl.s11 = <<>>
        /\ labels.min_rl = Blank <=> fl.s11 = <<>>
        /\ labels.min_gain = Blank <=> fl.s21 = <<>>
        /\ labels.max_gain = Blank <=> fl.s21 = <<>>

\* C15 witness: an empty S11 snapshot with blank S11 labels next to a
\* non-empty S21 snapshot with its labels set.
C15_Witness ==
    /\ LabelsSet
    /\ fl.s11 = <<>>
    /\ fl.s21 # <<>>
    /\ labels.min_swr = Blank
    /\ labels.min_rl = Blank
    /\ labels.min_gain # Blank
    /\ labels.max_gain # Blank

\* What _sweep_control(True) leaves: progress 0, start disabled, stop
\* enabled.
StartedControls ==
    [progress |-> 0, start_disabled |-> TRUE, stop_disabled |-> FALSE]

\* A step of sweep_start: the foreground stays idle, and the worker is left
\* alone or started (every step of the worker itself moves it elsewhere).
SweepStartStep ==
    /\ fpc = "idle"
    /\ fpc' = "idle"
    /\ connected' = connected
    /\ wpc' = wpc \/ (wpc = "stopped" /\ wpc' = "run")

\* C16: sweep_start without a connected device changes nothing (controls,
\* labels, markers, worker, buffer); with one it leaves progress 0, start
\* disabled, stop enabled; sweepFinished and showSweepError leave progress
\* 100, start enabled, stop disabled; exactly one of the two buttons is
\* enabled throughout, and no step of these handlers writes the buffer.
C16_Step ==
    /\ SweepStartStep /\ ~connected =>
          UNCHANGED <<sweep_control, markers, labels, wpc, sharedVars,
                      events, nwrites>>
    /\ SweepStartStep /\ connected =>
          /\ sweep_control' = StartedControls
          /\ wpc' # "stopped"
          /\ UNCHANGED sharedVars
    /\ fop = "none" /\ fop' \in {"sweepFinished", "showSweepError"} =>
          /\ sweep_control' = FinishedControls
          /\ UNCHANGED sharedVars
    /\ fop \in {"sweepFinished", "showSweepError"} /\ fpc' # fpc =>
          /\ sweep_control' = sweep_control
          /\ data' = data
          /\ sweepSource' = sweepSource
    /\ sweep_control.start_disabled # sweep_control.stop_disabled
    /\ sweep_control'.start_disabled # sweep_control'.stop_disabled

C16_SweepControl == [][C16_Step]_vars

\* C16 witness: sweep_start has returned with the device gone, after a
\* finished sweep whose labels, controls and buffer are all still in place.
C16_Witness ==
    /\ fpc = "idle"
    /\ trace.op = "sweep_start"
    /\ ~connected
    /\ wpc = "stopped"
    /\ sweep_control = FinishedControls
    /\ labels.min_swr # Blank
    /\ data.s11 # <<>>

====
